---- MODULE Spec2Model ----
(***************************************************************************)
(* Model of ostium_python_sdk: the SubgraphClient connection lifecycle     *)
(* (subgraph.py) and the Price client's fetch with TLS fallback (price.py).*)
(* Coroutines run on one asyncio event loop: a coroutine is interleaved    *)
(* with the others only where it awaits network I/O or the lock, so each   *)
(* action below is the code between two such suspension points.            *)
(***************************************************************************)
EXTENDS Integers, Sequences, FiniteSets, TLC

\* ---------------------------------------------------------------- bounds
NumTasks == 2
MaxCalls == 3

Tasks == 1..NumTasks

\* The (query, variable_values) pairs the query methods pass to
\* _execute_query, and the result the indexer may answer with.
Requests ==
    {[query |-> "getPairs", variable_values |-> "none"],
     [query |-> "getOrder", variable_values |-> "order_id"]}
QueryResults == {"rows"}

\* self._client = None
None == 0
NoTask == 0
Pending == [kind |-> "pending"]
NoOutcome == [kind |-> "none"]

\* ------------------------------------------------------ execution errors
\* What client.execute_async may raise; msg is str(e), word by word.
ErrAlreadyConnected ==
    [cls |-> "TransportAlreadyConnected",
     msg |-> <<"Transport", "is", "already", "connected">>]
ErrSessionConnected ==
    [cls |-> "Exception", msg |-> <<"session", "already", "connected">>]
ErrQueryFailed ==
    [cls |-> "TransportQueryError", msg |-> <<"query", "failed">>]
ErrAlreadyClosed ==
    [cls |-> "TransportClosed", msg |-> <<"Transport", "already", "closed">>]
ErrCancelled ==
    [cls |-> "CancelledError", msg |-> <<>>]

ExecErrors ==
    {ErrAlreadyConnected, ErrSessionConnected, ErrQueryFailed,
     ErrAlreadyClosed, ErrCancelled}

\* The errors whose message says the transport is already connected.
StaleErrors == {ErrAlreadyConnected, ErrSessionConnected}

Ok(v) == [kind |-> "ok", value |-> v]
Raise(e) == [kind |-> "raise", err |-> e]
ExecOutcomes == {Ok(v) : v \in QueryResults} \cup {Raise(e) : e \in ExecErrors}

\* needle in haystack, as Python's `in` on str
Contains(needle, haystack) ==
    \E i \in 0..(Len(haystack) - Len(needle)) :
        \A j \in 1..Len(needle) : haystack[i + j] = needle[j]

\* `except Exception` does not catch asyncio.CancelledError (a BaseException)
IsException(e) == e.cls # "CancelledError"

IsStaleNever(e) == FALSE
IsStaleAlways(e) == TRUE
\* "Transport is already connected" in str(e) or "already connected" in str(e)
IsStale(e) ==
    \/ Contains(<<"Transport", "is", "already", "connected">>, e.msg)
    \/ Contains(<<"already", "connected">>, e.msg)

VARIABLES
    client,       \* self._client: None or the identity of the cached Client
    created,      \* number of Client objects constructed so far
    invalidated,  \* number of times the cached client was discarded
    entered,      \* number of calls that have acquired the lock
    lockHolder,   \* self._lock: NoTask or the task inside `async with`
    waiters,      \* tasks waiting for self._lock, in arrival order
    pc,           \* where each task is in _execute_query
    req,          \* the (query, variable_values) of each task's current call
    execLog,      \* per task: the execute_async calls of the current call
    recreations,  \* per task: client recreations made by the current call
    outcome,      \* per task: what the current call returned or raised
    calls,        \* number of calls begun so far, over all tasks
    url,          \* self.url
    discarded     \* the clients that were cached and have been discarded

svars == <<client, created, invalidated, entered, lockHolder, waiters, pc, req,
           execLog, recreations, outcome, calls, url, discarded>>

\* SubgraphClient.__init__
SubgraphInit ==
    /\ client = None
    /\ created = 0
    /\ invalidated = 0
    /\ entered = 0
    /\ lockHolder = NoTask
    /\ waiters = <<>>
    /\ pc = [t \in Tasks |-> "idle"]
    /\ req = [t \in Tasks |-> [query |-> "getPairs", variable_values |-> "none"]]
    /\ execLog = [t \in Tasks |-> <<>>]
    /\ recreations = [t \in Tasks |-> 0]
    /\ outcome = [t \in Tasks |-> NoOutcome]
    /\ calls = 0
    /\ url = "https://subgraph"
    /\ discarded = {}

\* _get_client: the cached client, constructing one when it is absent.
\* Yields the client returned and the construction count afterwards.
GetClientAlwaysConstructs(c, n) == [client |-> n + 1, created |-> n + 1]
GetClient(c, n) ==
    IF c = None
    THEN [client |-> n + 1, created |-> n + 1]
    ELSE [client |-> c, created |-> n]

\* asyncio.Lock.acquire succeeds for the longest-waiting task once unlocked
CanAcquireUnlocked(t) == waiters # <<>> /\ Head(waiters) = t
CanAcquire(t) == lockHolder = NoTask /\ waiters # <<>> /\ Head(waiters) = t

Execution(c, r) ==
    [client |-> c, query |-> r.query, variable_values |-> r.variable_values,
     out |-> Pending]

\* A caller invokes _execute_query(query, variable_values) and reaches
\* `async with self._lock`.
Begin(t, r) ==
    /\ pc[t] \in {"idle", "done"}
    /\ calls < MaxCalls
    /\ pc' = [pc EXCEPT ![t] = "waiting"]
    /\ calls' = calls + 1
    /\ req' = [req EXCEPT ![t] = r]
    /\ waiters' = Append(waiters, t)
    /\ execLog' = [execLog EXCEPT ![t] = <<>>]
    /\ recreations' = [recreations EXCEPT ![t] = 0]
    /\ outcome' = [outcome EXCEPT ![t] = NoOutcome]
    /\ UNCHANGED <<client, created, invalidated, entered, lockHolder, url,
                   discarded>>

\* The lock is acquired, _get_client runs and the first execute_async starts.
Acquire(t) ==
    /\ pc[t] = "waiting"
    /\ CanAcquire(t)
    /\ LET g == GetClient(client, created) IN
        /\ client' = g.client
        /\ created' = g.created
        /\ execLog' = [execLog EXCEPT ![t] = <<Execution(g.client, req[t])>>]
    /\ lockHolder' = t
    /\ waiters' = Tail(waiters)
    /\ entered' = entered + 1
    /\ pc' = [pc EXCEPT ![t] = "exec1"]
    /\ UNCHANGED <<invalidated, req, recreations, outcome, calls, url,
                   discarded>>

FinishHoldingLock(t, log, out) ==
    /\ execLog' = [execLog EXCEPT ![t] = log]
    /\ outcome' = [outcome EXCEPT ![t] = out]
    /\ lockHolder' = lockHolder
    /\ pc' = [pc EXCEPT ![t] = "done"]

\* Leaving `async with self._lock` with the call's outcome.
Finish(t, log, out) ==
    /\ execLog' = [execLog EXCEPT ![t] = log]
    /\ outcome' = [outcome EXCEPT ![t] = out]
    /\ lockHolder' = NoTask
    /\ pc' = [pc EXCEPT ![t] = "done"]

Exec1ReturnRetriesOnOldClient(t, out) ==
    /\ pc[t] = "exec1"
    /\ LET log == [execLog[t] EXCEPT ![1].out = out] IN
        IF out.kind = "raise" /\ IsException(out.err) /\ IsStale(out.err)
        THEN
            /\ client' = None
            /\ invalidated' = invalidated + 1
            /\ discarded' = discarded \cup {client}
            /\ recreations' = [recreations EXCEPT ![t] = @ + 1]
            /\ execLog' = [execLog EXCEPT
                              ![t] = Append(log, Execution(log[1].client, req[t]))]
            /\ pc' = [pc EXCEPT ![t] = "exec2"]
            /\ UNCHANGED <<outcome, lockHolder, created>>
        ELSE
            /\ Finish(t, log, out)
            /\ UNCHANGED <<client, created, invalidated, recreations,
                           discarded>>
    /\ UNCHANGED <<entered, waiters, req, calls, url>>

\* The first execute_async completes: return the result, or on a stale
\* transport discard the client, recreate it and start the retry, or re-raise.
Exec1Return(t, out) ==
    /\ pc[t] = "exec1"
    /\ LET log == [execLog[t] EXCEPT ![1].out = out] IN
        IF out.kind = "raise" /\ IsException(out.err) /\ IsStale(out.err)
        THEN LET g == GetClient(None, created) IN
            /\ client' = g.client
            /\ created' = g.created
            /\ invalidated' = invalidated + 1
            /\ discarded' = discarded \cup {client}
            /\ recreations' = [recreations EXCEPT ![t] = @ + 1]
            /\ execLog' = [execLog EXCEPT
                              ![t] = Append(log, Execution(g.client, req[t]))]
            /\ pc' = [pc EXCEPT ![t] = "exec2"]
            /\ UNCHANGED <<outcome, lockHolder>>
        ELSE
            /\ Finish(t, log, out)
            /\ UNCHANGED <<client, created, invalidated, recreations,
                           discarded>>
    /\ UNCHANGED <<entered, waiters, req, calls, url>>

Exec2ReturnRetriesAgain(t, out) ==
    /\ pc[t] = "exec2"
    /\ LET n == Len(execLog[t])
           log == [execLog[t] EXCEPT ![n].out = out] IN
        IF out.kind = "raise" /\ IsException(out.err) /\ IsStale(out.err)
        THEN LET g == GetClient(None, created) IN
            /\ client' = g.client
            /\ created' = g.created
            /\ invalidated' = invalidated + 1
            /\ discarded' = discarded \cup {client}
            /\ recreations' = [recreations EXCEPT ![t] = @ + 1]
            /\ execLog' = [execLog EXCEPT
                              ![t] = Append(log, Execution(g.client, req[t]))]
            /\ UNCHANGED <<outcome, lockHolder, pc>>
        ELSE
            /\ Finish(t, log, out)
            /\ UNCHANGED <<client, created, invalidated, recreations,
                           discarded>>
    /\ UNCHANGED <<entered, waiters, req, calls, url>>

\* The retry completes: its result or its error is the call's outcome.
Exec2Return(t, out) ==
    /\ pc[t] = "exec2"
    /\ Finish(t, [execLog[t] EXCEPT ![2].out = out], out)
    /\ UNCHANGED <<client, created, invalidated, entered, waiters, req,
                   recreations, calls, url, discarded>>

\* ------------------------------------------------- price.py: Price client
MaxFetches == 3
NumFetchers == 2

Fetchers == 1..NumFetchers

\* ssl.create_default_context() and ssl.SSLContext(ssl.PROTOCOL_TLS_CLIENT)
\* both start with hostname checking on and certificates required.
DefaultContext == [check_hostname |-> TRUE, verify_mode |-> "CERT_REQUIRED"]

\* lines 21-23: the context of the primary attempt
PrimaryContext ==
    [DefaultContext EXCEPT !.check_hostname = FALSE, !.verify_mode = "CERT_NONE"]

\* lines 49-51: the context of the fallback attempt
FallbackContext ==
    [DefaultContext EXCEPT !.check_hostname = FALSE, !.verify_mode = "CERT_NONE"]

\* What the HTTP GET may answer: a status and a body that response.json()
\* parses ("prices", "no_prices") or rejects ("not_json").
Statuses == {200, 404, 500}
Bodies == {"prices", "not_json"}
Responses == [kind : {"response"}, status : Statuses, body : Bodies]

\* What the session may raise instead of answering; msg is str(e).
ErrCertificate ==
    [cls |-> "ClientConnectorCertificateError",
     msg |-> <<"certificate", "verify", "failed">>]
ErrSSL ==
    [cls |-> "ClientConnectorSSLError", msg |-> <<"ssl", "handshake", "failed">>]
ErrConnect ==
    [cls |-> "ClientConnectorError", msg |-> <<"cannot", "connect">>]
ErrTimeout ==
    [cls |-> "TimeoutError", msg |-> <<>>]
ErrContentType ==
    [cls |-> "ContentTypeError", msg |-> <<"unexpected", "mimetype">>]
TransportErrors == {ErrCertificate, ErrSSL, ErrConnect, ErrTimeout}

AttemptOutcomes == Responses \cup {Raise(e) : e \in TransportErrors \cup {ErrCancelled}}

\* f"{response.status}"
StatusText(s) ==
    CASE s = 200 -> "200"
      [] s = 404 -> "404"
      [] s = 500 -> "500"

\* Exception(f"Failed to fetch prices: {response.status}")
FetchFailed(s) ==
    [cls |-> "Exception", msg |-> <<"Failed to fetch prices:", StatusText(s)>>]

\* Exception(f"Error fetching prices: {str(e)}")
FetchError(e) ==
    [cls |-> "Exception", msg |-> <<"Error fetching prices:">> \o e.msg]

\* The body of `async with session.get(...) as response`: what it returns
\* or raises for an outcome of the request.
AttemptResult(out) ==
    IF out.kind = "raise" THEN out
    ELSE IF out.status = 200
         THEN IF out.body = "not_json" THEN Raise(ErrContentType) ELSE Ok(out.body)
         ELSE Raise(FetchFailed(out.status))

\* `except aiohttp.ClientConnectorCertificateError as e`
IsAnySSLError(e) == e.cls \in {"ClientConnectorCertificateError", "ClientConnectorSSLError"}
IsCertificateError(e) == e.cls = "ClientConnectorCertificateError"

VARIABLES
    fpc,       \* where each caller is in get_latest_prices
    fetchLog,  \* per caller: the requests of the current call, with the
               \* SSL context each was sent under and what came of it
    fetched,   \* per caller: what the current call returned or raised
    fetches    \* number of calls begun so far, over all callers

pvars == <<fpc, fetchLog, fetched, fetches>>

PriceInit ==
    /\ fpc = [f \in Fetchers |-> "idle"]
    /\ fetchLog = [f \in Fetchers |-> <<>>]
    /\ fetched = [f \in Fetchers |-> NoOutcome]
    /\ fetches = 0

\* `async with aiohttp.ClientSession(connector=connector, ...) as session`
\* opens a session for the request
Request(ctx) == [ssl |-> ctx, out |-> Pending, session |-> "open"]

SessionLeftOpen(attempt, out) == [attempt EXCEPT !.out = out]
\* Leaving the `async with` block, by return or by exception, closes the
\* session and the connector it owns.
SessionExit(attempt, out) ==
    [attempt EXCEPT !.out = out, !.session = "closed"]

\* get_latest_prices is called: the primary session is opened under the
\* primary context and the GET is sent.
FetchBegin(f) ==
    /\ fpc[f] \in {"idle", "done"}
    /\ fetches < MaxFetches
    /\ fetches' = fetches + 1
    /\ fetchLog' = [fetchLog EXCEPT ![f] = <<Request(PrimaryContext)>>]
    /\ fetched' = [fetched EXCEPT ![f] = NoOutcome]
    /\ fpc' = [fpc EXCEPT ![f] = "primary"]

FetchDone(f, log, res) ==
    /\ fetchLog' = [fetchLog EXCEPT ![f] = log]
    /\ fetched' = [fetched EXCEPT ![f] = res]
    /\ fpc' = [fpc EXCEPT ![f] = "done"]

\* The primary attempt ends: return the parsed body; on a certificate error
\* send the request again under the fallback context; wrap any other
\* Exception raised inside the try block.
PrimaryReturn(f, out) ==
    /\ fpc[f] = "primary"
    /\ LET log == [fetchLog[f] EXCEPT ![1] = SessionExit(@, out)]
           res == AttemptResult(out) IN
        IF res.kind = "ok" THEN FetchDone(f, log, res)
        ELSE IF IsCertificateError(res.err)
        THEN /\ fetchLog' = [fetchLog EXCEPT
                                ![f] = Append(log, Request(FallbackContext))]
             /\ fpc' = [fpc EXCEPT ![f] = "fallback"]
             /\ UNCHANGED fetched
        ELSE IF IsException(res.err)
        THEN FetchDone(f, log, Raise(FetchError(res.err)))
        ELSE FetchDone(f, log, res)
    /\ UNCHANGED fetches

\* The fallback attempt ends inside the except handler: what it returns or
\* raises leaves the call as it is.
FallbackReturn(f, out) ==
    /\ fpc[f] = "fallback"
    /\ FetchDone(f, [fetchLog[f] EXCEPT ![2] = SessionExit(@, out)],
                 AttemptResult(out))
    /\ UNCHANGED fetches

\* ------------------------------------- subgraph.py: the query methods
MaxPage == 3

\* Python values as the transport hands them over, tagged with their type.
Str(s) == [t |-> "str", str |-> s]
Dec(d) == [t |-> "Decimal", dec |-> d]
Flt(x) == [t |-> "float", flt |-> x]
Dict(items) == [t |-> "dict", items |-> items]
PyNone == [t |-> "NoneType"]
EmptyItems == [k \in {} |-> PyNone]

\* bool(result) for the values a query result can be: None and {} are falsy
Truthy(v) == v.t = "dict" /\ DOMAIN v.items # {}

\* `key in result`
HasKey(v, key) == v.t = "dict" /\ key \in DOMAIN v.items

\* float(value) for a Decimal: the nearest double, as Python prints it
FloatOfDecimal(d) ==
    CASE d = "100" -> "100.0"
      [] d = "0.10000000000000000000001" -> "0.1"

Decimals == {"100", "0.10000000000000000000001"}

\* ValueError(f"No pair details found for pair ID: {pair_id}")
PairNotFound(pair_id) ==
    [cls |-> "ValueError",
     msg |-> <<"No pair details found for pair ID:", pair_id>>]

\* what `pair.items()` raises when pair is None
ErrNoneHasNoItems ==
    [cls |-> "AttributeError",
     msg |-> <<"'NoneType' object has no attribute 'items'">>]

\* get_pair_details after _execute_query has ended with `resp`
PairDetails(pair_id, resp) ==
    IF resp.kind = "raise" THEN resp
    ELSE LET result == resp.value IN
        IF Truthy(result) /\ HasKey(result, "pair")
        THEN LET pair == result.items["pair"] IN
            IF pair.t # "dict" THEN Raise(ErrNoneHasNoItems)
            ELSE Ok(Dict([key \in DOMAIN pair.items |->
                            IF pair.items[key].t = "Decimal"
                            THEN Flt(FloatOfDecimal(pair.items[key].dec))
                            ELSE pair.items[key]]))
        ELSE Raise(PairNotFound(pair_id))

\* The pair records the indexer may answer with: numbers arrive as Decimal
\* or as text, at the top level and inside the group and fee sub-records.
Numbers == {Dec(d) : d \in Decimals} \cup {Str("100")}
Groups == {Dict([name |-> Str("crypto"), maxLeverage |-> n]) : n \in Numbers}
Fees == {Dict([minLevPos |-> n]) : n \in Numbers}
Pairs ==
    {Dict([id |-> Str("1"), maxLeverage |-> n, group |-> g, fee |-> f]) :
        n \in Numbers, g \in Groups, f \in Fees}
PairIds == {"1", "9"}

\* What _execute_query may hand to get_pair_details.
PairResults ==
    {PyNone, Dict(EmptyItems), Dict([pairs |-> PyNone]), Dict([pair |-> PyNone])}
    \cup {Dict([pair |-> p]) : p \in Pairs}

\* _execute_query raising
QueryFailures == {Raise(e) : e \in {ErrQueryFailed, ErrAlreadyConnected}}

PairResponses == {Ok(r) : r \in PairResults} \cup QueryFailures

\* Order, trade and history records, with the time the indexer orders by.
Entries == [id : {"a", "b"}, executedAt : {1, 2, 3}]

\* list(reversed(xs))
Reversed(xs) == [i \in 1..Len(xs) |-> xs[Len(xs) + 1 - i]]

Lists(n) == UNION {[1..k -> Entries] : k \in 0..n}

\* The pages a query with `first: n, orderBy: executedAt, orderDirection:
\* desc` may deliver.
Descending(page) ==
    \A i \in 1..(Len(page) - 1) : page[i].executedAt >= page[i + 1].executedAt
Pages(n) == {page \in Lists(n) : Descending(page)}

FirstOrRaise(resp, key) ==
    IF resp.kind = "raise" THEN resp
    ELSE IF Truthy(resp.value) /\ HasKey(resp.value, key)
              /\ Len(resp.value.items[key]) > 0
         THEN Ok(resp.value.items[key][1])
         ELSE Raise([cls |-> "IndexError", msg |-> <<"list index out of range">>])
\* get_order_by_id / get_trade_by_id after _execute_query has ended with
\* `resp`: the first record under `key`, or None
FirstOrNone(resp, key) ==
    IF resp.kind = "raise" THEN resp
    ELSE IF Truthy(resp.value) /\ HasKey(resp.value, key)
              /\ Len(resp.value.items[key]) > 0
         THEN Ok(resp.value.items[key][1])
         ELSE Ok(PyNone)

HistoryAsDelivered(resp) ==
    IF resp.kind = "raise" THEN resp ELSE Ok(resp.value.items["orders"])
\* get_recent_history after _execute_query has ended with `resp`
RecentHistory(resp) ==
    IF resp.kind = "raise" THEN resp
    ELSE Ok(Reversed(resp.value.items["orders"]))

\* What _execute_query may hand to get_order_by_id and get_trade_by_id.
ByIdResponses(key) ==
    {Ok(PyNone), Ok(Dict(EmptyItems))}
    \cup {Ok(Dict([k \in {key} |-> rows])) : rows \in Lists(2)}
    \cup QueryFailures

\* What _execute_query may hand to get_recent_history(trader, n).
HistoryResponses(n) ==
    {Ok(Dict([orders |-> page])) : page \in Pages(n)} \cup QueryFailures

VARIABLES
    qcall   \* the last query method called: its arguments, what
            \* _execute_query ended with and what the method returned or raised

qvars == <<qcall>>

QueryInit == qcall = [method |-> "none"]

GetPairDetails(pair_id, resp) ==
    qcall' = [method |-> "get_pair_details", pair_id |-> pair_id,
              resp |-> resp, ret |-> PairDetails(pair_id, resp)]

GetOrderById(order_id, resp) ==
    qcall' = [method |-> "get_order_by_id", order_id |-> order_id,
              resp |-> resp, ret |-> FirstOrNone(resp, "orders")]

GetTradeById(trade_id, resp) ==
    qcall' = [method |-> "get_trade_by_id", trade_id |-> trade_id,
              resp |-> resp, ret |-> FirstOrNone(resp, "trades")]

GetRecentHistory(last_n_orders, resp) ==
    qcall' = [method |-> "get_recent_history", last_n_orders |-> last_n_orders,
              resp |-> resp, ret |-> RecentHistory(resp)]

\* --------------------------------------------- price.py: the pair lookups
MaxBatch == 2

\* The records of a fetched price table. A full record carries from, to,
\* mid and the two market flags; the service may leave fields out.
Quotes ==
    {[from |-> f, to |-> t, mid |-> Flt(m),
      isMarketOpen |-> (m = "1.5"), isDayTradingClosed |-> (m = "2.5")] :
        f \in {"BTC", "btc"}, t \in {"USD", "EUR"}, m \in {"1.5", "2.5"}}
Without(quote, keys) == [key \in (DOMAIN quote) \ keys |-> quote[key]]
PartialQuotes ==
    {Without([from |-> "BTC", to |-> "USD", mid |-> Flt("1.5"),
              isMarketOpen |-> TRUE, isDayTradingClosed |-> TRUE], keys) :
        keys \in {{"mid"}, {"isMarketOpen", "isDayTradingClosed"}, {"from"}}}
PriceRecords == Quotes \cup PartialQuotes
Batches == UNION {[1..k -> PriceRecords] : k \in 0..MaxBatch}
Assets == {"BTC", "USD"}

\* What get_latest_prices may end with.
FetchResults ==
    {Ok(batch) : batch \in Batches}
    \cup {Raise(FetchError(ErrConnect)), Raise(ErrTimeout)}

\* dict.get(key, default)
DictGet(d, key, default) == IF key \in DOMAIN d THEN d[key] ELSE default

\* price_data.get('from') == from_asset and price_data.get('to') == to_asset
MatchesFromOnly(price_data, from_asset, to_asset) ==
    "from" \in DOMAIN price_data /\ price_data["from"] = from_asset
Matches(price_data, from_asset, to_asset) ==
    /\ "from" \in DOMAIN price_data /\ price_data["from"] = from_asset
    /\ "to" \in DOMAIN price_data /\ price_data["to"] = to_asset

\* `for price_data in prices`: the position of the first record, from
\* position i on, that matches; 0 when the loop runs out
RECURSIVE FirstMatch(_, _, _, _)
FirstMatch(prices, i, from_asset, to_asset) ==
    IF i > Len(prices) THEN 0
    ELSE IF Matches(prices[i], from_asset, to_asset) THEN i
    ELSE FirstMatch(prices, i + 1, from_asset, to_asset)

\* ValueError(f"No price found for pair: {from_asset}/{to_asset}")
PriceNotFound(from_asset, to_asset) ==
    [cls |-> "ValueError",
     msg |-> <<"No price found for pair:", from_asset, "/", to_asset>>]

\* get_latest_price_json after get_latest_prices has ended with `resp`
LatestPriceJson(resp, from_asset, to_asset) ==
    IF resp.kind = "raise" THEN resp
    ELSE LET i == FirstMatch(resp.value, 1, from_asset, to_asset) IN
        IF i = 0 THEN Raise(PriceNotFound(from_asset, to_asset))
        ELSE Ok(resp.value[i])

\* float(x) for the int 0 and for a float
IntZero == [t |-> "int", int |-> 0]
PyFloat(x) == IF x.t = "int" THEN Flt("0.0") ELSE x

ErrKeyError(key) == [cls |-> "KeyError", msg |-> <<key>>]

PriceTupleStrict(price_data) ==
    IF {"mid", "isMarketOpen", "isDayTradingClosed"} \subseteq DOMAIN price_data
    THEN Ok(<<PyFloat(price_data["mid"]), price_data["isMarketOpen"],
              price_data["isDayTradingClosed"]>>)
    ELSE Raise(ErrKeyError("mid"))
\* float(price_data.get('mid', 0)), price_data.get('isMarketOpen', False),
\* price_data.get('isDayTradingClosed', False)
PriceTuple(price_data) ==
    Ok(<<PyFloat(DictGet(price_data, "mid", IntZero)),
         DictGet(price_data, "isMarketOpen", FALSE),
         DictGet(price_data, "isDayTradingClosed", FALSE)>>)

\* get_price after get_latest_prices has ended with `resp`
GetPriceResult(resp, from_currency, to_currency) ==
    IF resp.kind = "raise" THEN resp
    ELSE LET i == FirstMatch(resp.value, 1, from_currency, to_currency) IN
        IF i = 0 THEN Raise(PriceNotFound(from_currency, to_currency))
        ELSE PriceTuple(resp.value[i])

VARIABLES
    lcall   \* the pair lookup called: its arguments, what get_latest_prices
            \* ended with and what the lookup returned or raised

lvars == <<lcall>>

LookupInit == lcall = [method |-> "none"]

GetLatestPriceJson(from_asset, to_asset, resp) ==
    /\ lcall.method = "none"
    /\ lcall' = [method |-> "get_latest_price_json", from |-> from_asset,
                 to |-> to_asset, resp |-> resp,
                 ret |-> LatestPriceJson(resp, from_asset, to_asset)]

GetPrice(from_currency, to_currency, resp) ==
    /\ lcall.method = "none"
    /\ lcall' = [method |-> "get_price", from |-> from_currency,
                 to |-> to_currency, resp |-> resp,
                 ret |-> GetPriceResult(resp, from_currency, to_currency)]


\* ---------------------------------------------------------- specifications
vars == <<svars, pvars, qvars, lvars>>

Init == SubgraphInit /\ PriceInit /\ QueryInit /\ LookupInit

Next ==
    \/ \E t \in Tasks, r \in Requests : Begin(t, r) /\ UNCHANGED <<pvars, qvars, lvars>>
    \/ \E t \in Tasks : Acquire(t) /\ UNCHANGED <<pvars, qvars, lvars>>
    \/ \E t \in Tasks, out \in ExecOutcomes :
          Exec1Return(t, out) /\ UNCHANGED <<pvars, qvars, lvars>>
    \/ \E t \in Tasks, out \in ExecOutcomes :
          Exec2Return(t, out) /\ UNCHANGED <<pvars, qvars, lvars>>

\* Concurrent callers of one SubgraphClient
Spec == Init /\ [][Next]_vars

\* One outcome of execute_async for each way out of _execute_query: a
\* result, a stale transport, another error.
GateOutcomes ==
    {Ok("rows"), Raise(ErrAlreadyConnected), Raise(ErrQueryFailed)}

FairNext ==
    \/ \E t \in Tasks, r \in Requests :
          Begin(t, r) /\ UNCHANGED <<pvars, qvars, lvars>>
    \/ \E t \in Tasks : Acquire(t) /\ UNCHANGED <<pvars, qvars, lvars>>
    \/ \E t \in Tasks, out \in GateOutcomes :
          Exec1Return(t, out) /\ UNCHANGED <<pvars, qvars, lvars>>
    \/ \E t \in Tasks, out \in GateOutcomes :
          Exec2Return(t, out) /\ UNCHANGED <<pvars, qvars, lvars>>

\* asyncio.Lock wakes its waiters in arrival order and the event loop runs
\* every ready coroutine; every execute_async is taken to end.
Fairness ==
    \A t \in Tasks :
        /\ WF_vars(Acquire(t) /\ UNCHANGED <<pvars, qvars, lvars>>)
        /\ WF_vars(\E out \in GateOutcomes :
                      Exec1Return(t, out) /\ UNCHANGED <<pvars, qvars, lvars>>)
        /\ WF_vars(\E out \in GateOutcomes :
                      Exec2Return(t, out) /\ UNCHANGED <<pvars, qvars, lvars>>)

\* Concurrent callers of one SubgraphClient whose executions all end
FairSpec == Init /\ [][FairNext]_vars /\ Fairness

FetchNext ==
    \/ \E f \in Fetchers : FetchBegin(f) /\ UNCHANGED <<svars, qvars, lvars>>
    \/ \E f \in Fetchers, out \in AttemptOutcomes :
          PrimaryReturn(f, out) /\ UNCHANGED <<svars, qvars, lvars>>
    \/ \E f \in Fetchers, out \in AttemptOutcomes :
          FallbackReturn(f, out) /\ UNCHANGED <<svars, qvars, lvars>>

\* Concurrent callers of Price.get_latest_prices
PriceSpec == Init /\ [][FetchNext]_vars

QueryNext ==
    \/ \E pair_id \in PairIds, resp \in PairResponses :
          GetPairDetails(pair_id, resp) /\ UNCHANGED <<svars, pvars, lvars>>
    \/ \E order_id \in {"a", "z"}, resp \in ByIdResponses("orders") :
          GetOrderById(order_id, resp) /\ UNCHANGED <<svars, pvars, lvars>>
    \/ \E trade_id \in {"a", "z"}, resp \in ByIdResponses("trades") :
          GetTradeById(trade_id, resp) /\ UNCHANGED <<svars, pvars, lvars>>
    \/ \E n \in 0..MaxPage : \E resp \in HistoryResponses(n) :
          GetRecentHistory(n, resp) /\ UNCHANGED <<svars, pvars, lvars>>

\* Calls of the query methods of SubgraphClient
QuerySpec == Init /\ [][QueryNext]_vars

LookupNext ==
    \/ \E f \in Assets, t \in Assets, resp \in FetchResults :
          GetLatestPriceJson(f, t, resp) /\ UNCHANGED <<svars, pvars, qvars>>
    \/ \E f \in Assets, t \in Assets, resp \in FetchResults :
          GetPrice(f, t, resp) /\ UNCHANGED <<svars, pvars, qvars>>

\* Calls of the pair lookups of Price
LookupSpec == Init /\ [][LookupNext]_vars

\* ------------------------------------------------------------- properties
StaleRaises == {Raise(e) : e \in StaleErrors}

\* task t has an execute_async call on the network
InFlight(t) == \E i \in 1..Len(execLog[t]) : execLog[t][i].out = Pending

\* C1: at most one execution against the GraphQL client (first attempt or
\* retry) is in flight at any time, however many callers there are.
C1_OneExecutionInFlight ==
    Cardinality({t \in Tasks : InFlight(t)}) <= 1

\* One caller is executing while another caller waits at the gate.
C1_Witness ==
    \E t, u \in Tasks : t # u /\ InFlight(t) /\ pc[u] = "waiting"

\* C2: a stale-transport failure of the first attempt leads to one client
\* recreation and one re-execution of the same query with the same
\* variables; a call makes at most two attempts and one recreation, and a
\* failure of the second attempt is the call's error, unmodified.
C2_RetryExactlyOnce ==
    \A t \in Tasks :
        LET log == execLog[t] IN
        /\ Len(log) <= 2
        /\ recreations[t] <= 1
        /\ (Len(log) >= 1 /\ log[1].out \in StaleRaises) =>
              /\ Len(log) = 2
              /\ recreations[t] = 1
              /\ log[2].client # log[1].client
              /\ log[2].query = log[1].query
              /\ log[2].variable_values = log[1].variable_values
              /\ log[2].query = req[t].query
              /\ log[2].variable_values = req[t].variable_values
        /\ (Len(log) = 2 /\ log[2].out.kind = "raise") =>
              /\ pc[t] = "done"
              /\ outcome[t] = log[2].out

\* A call has ended with its retry failing again on a stale transport.
C2_Witness ==
    \E t \in Tasks :
        /\ pc[t] = "done"
        /\ Len(execLog[t]) = 2
        /\ execLog[t][1].out = Raise(ErrAlreadyConnected)
        /\ execLog[t][2].out = Raise(ErrSessionConnected)

\* C3 as stated: no call ends by raising a stale-transport error.
C3_StaleNeverSurfaced ==
    \A t \in Tasks : pc[t] = "done" => outcome[t] \notin StaleRaises

\* C3 amended: a stale-transport error of the first attempt is never the
\* call's error; a call ends with a stale-transport error only when that
\* error was raised by its retry, after a stale first attempt.
C3_StaleSurfacedOnlyFromRetry ==
    \A t \in Tasks :
        (pc[t] = "done" /\ outcome[t] \in StaleRaises) =>
            /\ Len(execLog[t]) = 2
            /\ execLog[t][1].out \in StaleRaises
            /\ outcome[t] = execLog[t][2].out

\* A call has ended by raising a stale-transport error.
C3_Witness ==
    \E t \in Tasks : pc[t] = "done" /\ outcome[t] = Raise(ErrAlreadyConnected)

\* C4: a first attempt that fails with an error that is not a stale-transport
\* error is not retried, and that same error is the call's error.
C4_OtherErrorsNotRetried ==
    \A t \in Tasks :
        LET log == execLog[t] IN
        (/\ Len(log) >= 1
         /\ log[1].out.kind = "raise"
         /\ log[1].out.err \notin StaleErrors) =>
            /\ Len(log) = 1
            /\ recreations[t] = 0
            /\ pc[t] = "done"
            /\ outcome[t] = log[1].out

\* A call has ended on a first-attempt error that mentions "already" but not
\* an already connected transport.
C4_Witness ==
    \E t \in Tasks :
        /\ pc[t] = "done"
        /\ Len(execLog[t]) = 1
        /\ outcome[t] = Raise(ErrAlreadyClosed)

\* C5: no client exists before the first call has the gate; afterwards the
\* number of clients constructed is one plus the number of invalidations,
\* and the one cached client is the last one constructed.
C5_LazyMemoizedClient ==
    /\ entered = 0 => (client = None /\ created = 0)
    /\ created = (IF entered > 0 THEN 1 ELSE 0) + invalidated
    /\ entered > 0 => (client # None /\ client = created)

\* Several calls have run, one of them invalidated the client, and a later
\* call is executing.
C5_Witness ==
    /\ entered >= 3
    /\ invalidated = 1
    /\ \E t \in Tasks : pc[t] = "exec1"

\* Every execution in flight runs on the cached client, which is present.
AllPendingOnCached ==
    \A t \in Tasks : \A i \in 1..Len(execLog[t]) :
        execLog[t][i].out = Pending =>
            (client # None /\ execLog[t][i].client = client)

\* C6: when the cached client is discarded or replaced no execution is in
\* flight on the discarded client, and an execution in flight never sees
\* the cached client absent or different from the one it runs on.
C6_SwapAtomic ==
    [][/\ (client # None /\ client' # client) =>
            \A t \in Tasks : \A i \in 1..Len(execLog'[t]) :
                execLog'[t][i].out = Pending => execLog'[t][i].client # client
       /\ AllPendingOnCached']_vars

\* A call has swapped the client and is retrying while another caller waits.
C6_Witness ==
    \E t, u \in Tasks :
        /\ t # u
        /\ pc[t] = "exec2"
        /\ pc[u] = "waiting"
        /\ calls >= 3

\* the SSL context validates the peer's certificate
Validates(ctx) == ctx.verify_mode # "CERT_NONE"

CertificateRaise == Raise(ErrCertificate)

\* C7: a certificate failure of the primary attempt leads to exactly one
\* fallback attempt, sent without certificate validation, and to no further
\* attempt whatever the fallback ends with; a primary attempt that ends any
\* other way leads to no fallback attempt.
C7_OneFallbackOnCertificateFailure ==
    \A f \in Fetchers :
        LET log == fetchLog[f] IN
        /\ Len(log) <= 2
        /\ (Len(log) >= 1 /\ log[1].out = CertificateRaise) =>
              (Len(log) = 2 /\ ~Validates(log[2].ssl))
        /\ (Len(log) >= 1 /\ log[1].out \notin {Pending, CertificateRaise}) =>
              (Len(log) = 1 /\ fpc[f] = "done")
        /\ (Len(log) = 2 /\ log[2].out # Pending) => fpc[f] = "done"

\* A call has ended after its fallback attempt failed on the certificate too.
C7_Witness ==
    \E f \in Fetchers :
        /\ fpc[f] = "done"
        /\ Len(fetchLog[f]) = 2
        /\ fetchLog[f][2].out = CertificateRaise

\* C8: the primary attempt is sent with certificate validation, and a request
\* without validation is the second one of a call whose primary attempt
\* failed on the certificate.
C8_ValidationRelaxedOnlyOnFallback ==
    \A f \in Fetchers : \A i \in 1..Len(fetchLog[f]) :
        /\ i = 1 => Validates(fetchLog[f][i].ssl)
        /\ ~Validates(fetchLog[f][i].ssl) =>
              (i = 2 /\ fetchLog[f][1].out = CertificateRaise)

\* C9: a call in which an attempt received a status other than 200 fails with
\* FetchFailed of that status, and one whose attempt received 200 with a
\* JSON body returns that body.
C9_StatusDecidesResult ==
    \A f \in Fetchers : \A i \in 1..Len(fetchLog[f]) :
        LET out == fetchLog[f][i].out IN
        (fpc[f] = "done" /\ out.kind = "response") =>
            /\ out.status # 200 => fetched[f] = Raise(FetchFailed(out.status))
            /\ (out.status = 200 /\ out.body # "not_json") =>
                  fetched[f] = Ok(out.body)

FetchFailedErrors == {FetchFailed(s) : s \in Statuses}
IsFetchError(e) ==
    e.cls = "Exception" /\ Len(e.msg) >= 1 /\ e.msg[1] = "Error fetching prices:"

\* C10: a failed call raises FetchFailed or FetchError; an exception raised
\* by the transport in either attempt, other than the certificate failure
\* that starts the fallback, reaches the caller wrapped in FetchError.
C10_FailuresWrapped ==
    \A f \in Fetchers :
        fpc[f] = "done" =>
            /\ (fetched[f].kind = "raise" /\ fetched[f].err # ErrCancelled) =>
                  (fetched[f].err \in FetchFailedErrors \/ IsFetchError(fetched[f].err))
            /\ \A i \in 1..Len(fetchLog[f]) :
                  LET out == fetchLog[f][i].out IN
                  (/\ out.kind = "raise"
                   /\ out.err \in TransportErrors
                   /\ ~(i = 1 /\ out = CertificateRaise)) =>
                      fetched[f] = Raise(FetchError(out.err))

\* the indexer's answer holds no pair: no result, no pair entry, or null
PairAbsent(result) ==
    \/ ~HasKey(result, "pair")
    \/ result.items["pair"].t = "NoneType"

\* C11: get_pair_details fails with NotFound(pair_id) for every shape in
\* which the indexer reports that it has no such pair.
C11_AbsentPairNotFound ==
    (/\ qcall.method = "get_pair_details"
     /\ qcall.resp.kind = "ok"
     /\ PairAbsent(qcall.resp.value)) =>
        qcall.ret = Raise(PairNotFound(qcall.pair_id))

\* sub is the sub-record `was` with every Decimal made a float
SubRecordNormalized(was, sub) ==
    /\ sub.t = "dict"
    /\ DOMAIN sub.items = DOMAIN was.items
    /\ \A key \in DOMAIN was.items :
          IF was.items[key].t = "Decimal"
          THEN sub.items[key].t = "float"
          ELSE sub.items[key] = was.items[key]

\* rec is the pair `was` with every Decimal made a float, also those of
\* its sub-records, and nothing else changed
PairNormalized(was, rec) ==
    /\ rec.t = "dict"
    /\ DOMAIN rec.items = DOMAIN was.items
    /\ \A key \in DOMAIN was.items :
          CASE was.items[key].t = "Decimal" -> rec.items[key].t = "float"
            [] was.items[key].t = "dict" ->
                  SubRecordNormalized(was.items[key], rec.items[key])
            [] OTHER -> rec.items[key] = was.items[key]

\* C12: get_pair_details returns the pair with the same field names, every
\* Decimal field a float, including those of group and fee, and every other
\* field unchanged.
C12_EveryDecimalIsFloat ==
    (/\ qcall.method = "get_pair_details"
     /\ qcall.resp.kind = "ok"
     /\ ~PairAbsent(qcall.resp.value)) =>
        /\ qcall.ret.kind = "ok"
        /\ PairNormalized(qcall.resp.value.items["pair"], qcall.ret.value)

\* the rows a by-id query answered with, none when the answer has no rows
RowsOf(result, key) ==
    IF Truthy(result) /\ HasKey(result, key) THEN result.items[key] ELSE <<>>

ByIdKey == IF qcall.method = "get_order_by_id" THEN "orders" ELSE "trades"

\* C13: get_order_by_id and get_trade_by_id return None when the query
\* succeeds with no matching record and the record when it matches one; when
\* the query fails they fail with its error and return nothing.
C13_AbsentIsNotFailure ==
    qcall.method \in {"get_order_by_id", "get_trade_by_id"} =>
        IF qcall.resp.kind = "raise"
        THEN qcall.ret = qcall.resp
        ELSE LET rows == RowsOf(qcall.resp.value, ByIdKey) IN
            /\ qcall.ret.kind = "ok"
            /\ Len(rows) = 0 => qcall.ret.value = PyNone
            /\ Len(rows) = 1 => qcall.ret.value = rows[1]

\* An order lookup whose query succeeded with an empty list of orders.
C13_Witness ==
    /\ qcall.method = "get_order_by_id"
    /\ qcall.resp.kind = "ok"
    /\ HasKey(qcall.resp.value, "orders")
    /\ qcall.resp.value.items["orders"] = <<>>
    /\ qcall.ret = Ok(PyNone)

\* C14: get_recent_history returns the entries of the delivered page, each
\* once, in the reverse of the delivered order: at most n entries, oldest first.
C14_HistoryOldestFirst ==
    (qcall.method = "get_recent_history" /\ qcall.resp.kind = "ok") =>
        LET page == qcall.resp.value.items["orders"]
            n == Len(page) IN
        /\ qcall.ret.kind = "ok"
        /\ Len(qcall.ret.value) = n
        /\ n <= qcall.last_n_orders
        /\ \A i \in 1..n : qcall.ret.value[i] = page[n + 1 - i]
        /\ \A i \in 1..(n - 1) :
              qcall.ret.value[i].executedAt <= qcall.ret.value[i + 1].executedAt

\* A full page of three entries executed at three different times.
C14_Witness ==
    /\ qcall.method = "get_recent_history"
    /\ qcall.resp.kind = "ok"
    /\ qcall.last_n_orders = 3
    /\ Len(qcall.ret.value) = 3
    /\ qcall.ret.value[1].executedAt < qcall.ret.value[2].executedAt
    /\ qcall.ret.value[2].executedAt < qcall.ret.value[3].executedAt

\* the record carries exactly this from and this to
HasPair(rec, f, t) ==
    /\ {"from", "to"} \subseteq DOMAIN rec
    /\ rec["from"] = f
    /\ rec["to"] = t

\* the positions of the fetched batch whose record has the requested pair
MatchingPositions ==
    {i \in 1..Len(lcall.resp.value) :
        HasPair(lcall.resp.value[i], lcall["from"], lcall["to"])}

FirstMatching ==
    lcall.resp.value[CHOOSE i \in MatchingPositions :
                        \A j \in MatchingPositions : i <= j]

\* C15: get_latest_price_json returns the first record of the batch that has
\* the requested from and to, unmodified, and fails with NotFound(pair) when
\* the batch has none; it returns no record of another pair.
C15_FirstRecordOfPair ==
    (lcall.method = "get_latest_price_json" /\ lcall.resp.kind = "ok") =>
        /\ IF MatchingPositions = {}
           THEN lcall.ret = Raise(PriceNotFound(lcall["from"], lcall["to"]))
           ELSE lcall.ret = Ok(FirstMatching)
        /\ lcall.ret.kind = "ok" =>
              HasPair(lcall.ret.value, lcall["from"], lcall["to"])

\* Two different records of the batch have the requested pair and the first
\* of them is returned.
C15_Witness ==
    /\ lcall.method = "get_latest_price_json"
    /\ lcall.resp.kind = "ok"
    /\ Cardinality(MatchingPositions) = 2
    /\ lcall.resp.value[1] # lcall.resp.value[2]
    /\ lcall.ret = Ok(lcall.resp.value[1])

C17_SessionsClosed ==
    \A f \in Fetchers :
        LET log == fetchLog[f] IN
        /\ Len(log) <= 2
        /\ Len(log) = 2 => log[1].out = CertificateRaise
        /\ \A i \in 1..Len(log) :
              (log[i].session = "open") <=> (log[i].out = Pending)
        /\ fpc[f] \in {"idle", "done"} =>
              \A i \in 1..Len(log) : log[i].session = "closed"

\* A call that opened two sessions has ended by raising from the fallback.
C17_Witness ==
    \E f \in Fetchers :
        /\ fpc[f] = "done"
        /\ Len(fetchLog[f]) = 2
        /\ fetched[f] = Raise(ErrConnect)
        /\ fetchLog[f][1].session = "closed"
        /\ fetchLog[f][2].session = "closed"

\* the lock is held exactly by a task inside `async with`
GateHeldOnlyInside ==
    /\ \A t \in Tasks : pc[t] \in {"exec1", "exec2"} <=> lockHolder = t
    /\ (\A t \in Tasks : pc[t] \notin {"exec1", "exec2"}) => lockHolder = NoTask

C19_DiscardedNeverUsed ==
    /\ \A t \in Tasks : \A i \in 1..Len(execLog[t]) :
          execLog[t][i].out = Pending =>
              \A d \in discarded : execLog[t][i].client > d
    /\ \A t \in Tasks : pc[t] = "done" => client # None
    /\ client \notin discarded

\* After an invalidation a later call is executing.
C19_Witness ==
    \E t, u \in Tasks :
        /\ t # u
        /\ pc[t] = "done"
        /\ Len(execLog[t]) = 2
        /\ pc[u] = "exec1"
        /\ discarded = {execLog[t][1].client}
        /\ execLog[u][1].client = execLog[t][2].client

\* C20: a call that ends on its first attempt leaves the cached client as it
\* was when the call got the gate, a call that gets the gate with a client
\* cached executes on it without constructing one, and self.url never changes.
C20_ClientKept ==
    [][/\ \A t \in Tasks :
            /\ (pc[t] = "exec1" /\ pc'[t] = "done") =>
                  /\ client' = client
                  /\ client' = execLog[t][1].client
                  /\ created' = created
            /\ (pc[t] = "waiting" /\ pc'[t] = "exec1" /\ client # None) =>
                  /\ client' = client
                  /\ created' = created
                  /\ execLog'[t][1].client = client
       /\ url' = url]_vars

\* A call failed on a non-stale error and the next call executes on the
\* same, only client.
C20_Witness ==
    \E t, u \in Tasks :
        /\ t # u
        /\ pc[t] = "done"
        /\ outcome[t] = Raise(ErrAlreadyClosed)
        /\ pc[u] = "exec1"
        /\ execLog[u][1].client = execLog[t][1].client
        /\ created = 1
        /\ entered = 2

====
